---- MODULE Spec2Model ----
(***************************************************************************)
(* Model of heatmap_clips.py: time arithmetic, the marker parser           *)
(* (get_chapters, get_heatmaps), the ranking and merge engine              *)
(* (VideoHeatmap.most_intense_heatmaps / most_intense_chapters) and the    *)
(* clip interval calculator (Video.generate_chapter_clips,                 *)
(* generate_heatmap_clips, generate_clip).                                 *)
(*                                                                         *)
(* Representation.  A datetime.time is a record [hour, minute, second];    *)
(* its constructor raises ValueError outside 0..23 / 0..59 / 0..59, and a  *)
(* raised exception is the value ValueError, which propagates through      *)
(* every caller.  Optional[x] is <<>> (None) or <<x>>.  A number handed    *)
(* to seconds_to_time is an int or a float; the only floats the program    *)
(* builds are middle -/+ length/2, so a float is kept as twice its value.  *)
(* intensity_score_normalised is kept in hundredths.  A Heatmap object is  *)
(* its index in VideoHeatmap.heatmaps, a Chapter object its index in the   *)
(* chapter list: lists of objects are sequences of such references.        *)
(* Thumbnails are carried through unchanged by the code and are left out.  *)
(***************************************************************************)
EXTENDS Integers, Sequences, FiniteSets, TLC

VARIABLES
    marker_data,    \* the markersMap entries: a sequence of [key, value]
    duration,       \* video.ydl_info["duration"], in seconds
    pc,             \* how far get_video_heatmap has come, or where it raised
    chapters,       \* the list get_chapters returned (empty before)
    heatmaps,       \* VideoHeatmap.heatmaps: the Heatmap objects, by reference
    call,           \* the running/last most_intense_* call: <<>> or <<[fn, merge, count]>>
    result,         \* the list that call returned: references into heatmaps
                    \* (most_intense_heatmaps) or into chapters (most_intense_chapters)
    clip_call,      \* the last generate_*_clips call: <<>> or <<[fn, bases, align, length]>>
    clips,          \* the generate_clip calls it made, in order
    clip_error,     \* whether that call ended by raising
    t_arg,          \* time arithmetic: the argument of the last conversion
    t_time,         \* time arithmetic: the datetime.time built (or ValueError)
    t_seconds       \* time arithmetic: what time_to_seconds returned for t_time

vars == <<marker_data, duration, pc, chapters, heatmaps, call, result,
          clip_call, clips, clip_error, t_arg, t_time, t_seconds>>

None == <<>>
Some(x) == <<x>>
Get(o) == o[1]

ValueError == [error |-> "ValueError"]
IsError(x) == x = ValueError

\* How a list-building function ends: it returns the list, or raises ValueError
Return(list) == [raised |-> FALSE, value |-> list]
Raise == [raised |-> TRUE, value |-> <<>>]

Min(a, b) == IF a <= b THEN a ELSE b

-----------------------------------------------------------------------------
(* Bounds of the model *)

MaxChapters == 3
MaxMarkers == 2
MaxHeatmaps == 3
MaxCount == 3
MaxBases == 2
MaxHours == 25

-----------------------------------------------------------------------------
(* Time arithmetic *)

\* datetime.time(hour, minute, second): ValueError outside the field ranges
Time(h, m, s) ==
    IF h \in 0..23 /\ m \in 0..59 /\ s \in 0..59
    THEN [hour |-> h, minute |-> m, second |-> s]
    ELSE ValueError

\* int(milliseconds / 1000) for a non-negative int
milliseconds_to_time(milliseconds) ==
    LET secs == milliseconds \div 1000
    IN  Time(secs \div 3600, (secs % 3600) \div 60, secs % 60)

IntArg(n) == [kind |-> "int", v |-> n]
FloatArg(twice) == [kind |-> "float", twice |-> twice]

\* Python 3 round(): to the nearest integer, ties to the even one
round(twice) ==
    LET lo == twice \div 2
    IN  IF twice % 2 = 0 THEN lo
        ELSE IF lo % 2 = 0 THEN lo ELSE lo + 1

seconds_to_time(seconds) ==
    LET secs == IF seconds.kind = "float" THEN round(seconds.twice) ELSE seconds.v
    IN  Time(secs \div 3600, (secs % 3600) \div 60, secs % 60)

time_to_seconds(time) == (time.hour * 60 + time.minute) * 60 + time.second

\* datetime.time ordering: by (hour, minute, second)
TimeLE(a, b) ==
    \/ a.hour < b.hour
    \/ a.hour = b.hour /\ a.minute < b.minute
    \/ a.hour = b.hour /\ a.minute = b.minute /\ a.second <= b.second

-----------------------------------------------------------------------------
(* Marker parser *)

\* The first entry of marker_data with the key, as the for/break loops find it
EntryValue(md, key) ==
    LET hits == {i \in 1..Len(md) : md[i].key = key}
    IN  IF hits = {} THEN <<>>
        ELSE md[CHOOSE i \in hits : \A j \in hits : i <= j].value

\* get_chapters' end_time with the bug of taking the chapter's own offset
ChapterEndTimeOwn(chapter_data, i, dur) ==
    IF i + 1 <= Len(chapter_data)
    THEN milliseconds_to_time(chapter_data[i].timeRangeStartMillis)
    ELSE seconds_to_time(IntArg(dur))

\* get_heatmaps' scan with the bug of keeping the first match
FirstMatchingChapter(chs, start) ==
    LET hits == {k \in 1..Len(chs) : TimeLE(chs[k].start_time, start)}
    IN  IF hits = {} THEN None
        ELSE Some(CHOOSE k \in hits : \A j \in hits : k <= j)

AnyError(s) == \E i \in 1..Len(s) : IsError(s[i])

ChapterEndTime(chapter_data, i, dur) ==
    IF i + 1 <= Len(chapter_data)
    THEN milliseconds_to_time(chapter_data[i + 1].timeRangeStartMillis)
    ELSE seconds_to_time(IntArg(dur))

get_chapters(md, dur) ==
    LET chapter_data == EntryValue(md, "DESCRIPTION_CHAPTERS")
        starts == [i \in 1..Len(chapter_data) |->
                     milliseconds_to_time(chapter_data[i].timeRangeStartMillis)]
        ends == [i \in 1..Len(chapter_data) |-> ChapterEndTime(chapter_data, i, dur)]
    IN  IF AnyError(starts) \/ AnyError(ends) THEN Raise
        ELSE Return([i \in 1..Len(chapter_data) |->
                       [title |-> chapter_data[i].title,
                        start_time |-> starts[i],
                        end_time |-> ends[i]]])

\* The inner loop of get_heatmaps from chapter k on: every chapter whose
\* start_time is <= start overwrites the running match
RECURSIVE ScanChapters(_, _, _, _)
ScanChapters(chs, start, k, running) ==
    IF k > Len(chs) THEN running
    ELSE ScanChapters(chs, start, k + 1,
                      IF TimeLE(chs[k].start_time, start) THEN Some(k) ELSE running)

matching_chapter(chs, start) == ScanChapters(chs, start, 1, None)

get_heatmaps(md, chs) ==
    LET heatmap_data == EntryValue(md, "HEATSEEKER")
        starts == [i \in 1..Len(heatmap_data) |->
                     milliseconds_to_time(heatmap_data[i].timeRangeStartMillis)]
        ends == [i \in 1..Len(heatmap_data) |->
                   milliseconds_to_time(heatmap_data[i].timeRangeStartMillis
                                        + heatmap_data[i].markerDurationMillis)]
    IN  IF AnyError(starts) \/ AnyError(ends) THEN Raise
        ELSE Return([i \in 1..Len(heatmap_data) |->
                       [chapter |-> matching_chapter(chs, starts[i]),
                        start_time |-> starts[i],
                        end_time |-> ends[i],
                        intensity_score_normalised |->
                            heatmap_data[i].heatMarkerIntensityScoreNormalized]])

-----------------------------------------------------------------------------
(* Ranking and merge engine *)

\* A descending sort that is not stable: a new element goes before its equals
InsertUnstable(sorted, ref, hs) ==
    LET k == Cardinality({i \in 1..Len(sorted) :
                 hs[sorted[i]].intensity_score_normalised
                     > hs[ref].intensity_score_normalised})
    IN  SubSeq(sorted, 1, k) \o <<ref>> \o SubSeq(sorted, k + 1, Len(sorted))

\* sorted(..., reverse=True) keeps equal keys in their original order: a new
\* element goes behind every element whose key is >= its own
InsertSorted(sorted, ref, hs) ==
    LET k == Cardinality({i \in 1..Len(sorted) :
                 hs[sorted[i]].intensity_score_normalised
                     >= hs[ref].intensity_score_normalised})
    IN  SubSeq(sorted, 1, k) \o <<ref>> \o SubSeq(sorted, k + 1, Len(sorted))

RECURSIVE SortFrom(_, _, _)
SortFrom(hs, k, acc) ==
    IF k > Len(hs) THEN acc ELSE SortFrom(hs, k + 1, InsertSorted(acc, k, hs))

\* sorted(self.heatmaps, key=intensity, reverse=True): the same objects, reordered
sorted_heatmaps(hs) == SortFrom(hs, 1, <<>>)

\* merged_heatmaps is a dict, which keeps insertion order: a sequence of [key, ref]
HasKey(merged, title) == \E i \in 1..Len(merged) : merged[i].key = title

Lookup(merged, title) ==
    merged[CHOOSE i \in 1..Len(merged) : merged[i].key = title].ref

TitleOf(hs, chs, ref) == chs[Get(hs[ref].chapter)].title

\* The admission test with the bound "< count" in place of "<= count"
CanAdmitStrict(merged, title, count) ==
    ~HasKey(merged, title) /\ Len(merged) < count

CanAdmit(merged, title, count) ==
    ~HasKey(merged, title) /\ Len(merged) <= count

\* The widening with the bug of never moving end_time
WidenStartOnly(hs, m, ref) ==
    IF TimeLE(hs[ref].start_time, hs[m].start_time)
    THEN [hs EXCEPT ![m].start_time = hs[ref].start_time]
    ELSE hs

\* The admitted object m is assigned to in place
Widen(hs, m, ref) ==
    LET hs1 == IF TimeLE(hs[ref].start_time, hs[m].start_time)
               THEN [hs EXCEPT ![m].start_time = hs[ref].start_time]
               ELSE hs
    IN  IF TimeLE(hs1[m].end_time, hs1[ref].end_time)
        THEN [hs1 EXCEPT ![m].end_time = hs1[ref].end_time]
        ELSE hs1

\* One iteration of the loop over sorted_heatmaps
MergeStep(st, ref, chs, count) ==
    IF st.heatmaps[ref].chapter = None THEN st
    ELSE LET title == TitleOf(st.heatmaps, chs, ref)
         IN  IF CanAdmit(st.merged, title, count)
             THEN [st EXCEPT !.merged = Append(@, [key |-> title, ref |-> ref])]
             ELSE IF ~HasKey(st.merged, title) THEN st
                  ELSE [st EXCEPT !.heatmaps = Widen(@, Lookup(st.merged, title), ref)]

RECURSIVE MergeLoop(_, _, _, _, _)
MergeLoop(sorted, k, st, chs, count) ==
    IF k > Len(sorted) THEN st
    ELSE MergeLoop(sorted, k + 1, MergeStep(st, sorted[k], chs, count), chs, count)

CountWithChapter(hs) == Cardinality({i \in 1..Len(hs) : hs[i].chapter # None})

\* VideoHeatmap.most_intense_heatmaps, for count >= 0: the list it returns and
\* the Heatmap objects as it leaves them
most_intense_heatmaps(hs, chs, merge, count) ==
    LET sorted == sorted_heatmaps(hs)
    IN  IF ~merge \/ CountWithChapter(hs) < count
        THEN [heatmaps |-> hs, result |-> SubSeq(sorted, 1, Min(count, Len(sorted)))]
        ELSE LET st == MergeLoop(sorted, 1, [merged |-> <<>>, heatmaps |-> hs], chs, count)
             IN  [heatmaps |-> st.heatmaps,
                  result |-> [i \in 1..Len(st.merged) |-> st.merged[i].ref]]

\* The projection of most_intense_chapters: the chapter of every entry that has one
RECURSIVE ChaptersOf(_, _)
ChaptersOf(hs, refs) ==
    IF refs = <<>> THEN <<>>
    ELSE (IF hs[Head(refs)].chapter = None THEN <<>> ELSE <<Get(hs[Head(refs)].chapter)>>)
         \o ChaptersOf(hs, Tail(refs))

-----------------------------------------------------------------------------
(* Clip interval calculator *)

\* "if length:" takes neither None nor 0
Truthy(length) == length # None /\ Get(length) # 0

\* The start_time / end_time that the loop body of generate_chapter_clips and
\* of generate_heatmap_clips computes for one chapter or heatmap; either stays
\* None when no length applies, and a failed seconds_to_time is ValueError
ClipTimes(base, align, length) ==
    IF ~Truthy(length) THEN [start_time |-> None, end_time |-> None]
    ELSE IF align = "left"
    THEN [start_time |-> Some(base.start_time),
          end_time |-> Some(seconds_to_time(
                          IntArg(time_to_seconds(base.start_time) + Get(length))))]
    ELSE IF align = "right"
    THEN [start_time |-> Some(seconds_to_time(
                            IntArg(time_to_seconds(base.start_time) - Get(length)))),
          end_time |-> Some(base.end_time)]
    ELSE LET middle == (time_to_seconds(base.start_time)
                        + time_to_seconds(base.end_time)) \div 2
         IN  [start_time |-> Some(seconds_to_time(FloatArg(2 * middle - Get(length)))),
              end_time |-> Some(seconds_to_time(FloatArg(2 * middle + Get(length))))]

ClipRaises(base, align, length) ==
    LET t == ClipTimes(base, align, length)
    IN  \/ t.start_time # None /\ IsError(Get(t.start_time))
        \/ t.end_time # None /\ IsError(Get(t.end_time))

\* "start_time or chapter.start_time": a datetime.time is always true
OrElse(computed, fallback) == IF computed = None THEN fallback ELSE Get(computed)

\* Video.generate_clip: the bounds it hands to subclip (t_end None: to the end)
generate_clip(base_ref, start_time, end_time, dur) ==
    [base |-> base_ref,
     start_time |-> start_time,
     end_time |-> end_time,
     t_start |-> IF time_to_seconds(start_time) > 0 THEN time_to_seconds(start_time) ELSE 0,
     t_end |-> IF time_to_seconds(end_time) < dur THEN Some(time_to_seconds(end_time))
               ELSE None]

\* The loop of generate_chapter_clips / generate_heatmap_clips from the k-th
\* base on: the generate_clip calls made, until one iteration raises
RECURSIVE ClipLoop(_, _, _, _, _, _, _)
ClipLoop(objects, refs, k, align, length, dur, made) ==
    IF k > Len(refs) THEN [raised |-> FALSE, clips |-> made]
    ELSE LET base == objects[refs[k]]
             t == ClipTimes(base, align, length)
         IN  IF ClipRaises(base, align, length) THEN [raised |-> TRUE, clips |-> made]
             ELSE ClipLoop(objects, refs, k + 1, align, length, dur,
                           Append(made, generate_clip(refs[k],
                                                      OrElse(t.start_time, base.start_time),
                                                      OrElse(t.end_time, base.end_time),
                                                      dur)))

generate_chapter_clips(chs, refs, align, length, dur) ==
    ClipLoop(chs, refs, 1, align, length, dur, <<>>)

generate_heatmap_clips(hs, refs, align, length, dur) ==
    ClipLoop(hs, refs, 1, align, length, dur, <<>>)

-----------------------------------------------------------------------------
(* Inputs *)

SeqsUpTo(S, n) == UNION {[1..k -> S] : k \in 0..n}

\* markersMap as the page gives it: a tag is absent when it has no items
MarkerData(chapter_data, heatmap_data) ==
    (IF chapter_data = <<>> THEN <<>>
     ELSE <<[key |-> "DESCRIPTION_CHAPTERS", value |-> chapter_data]>>)
    \o
    (IF heatmap_data = <<>> THEN <<>>
     ELSE <<[key |-> "HEATSEEKER", value |-> heatmap_data]>>)

ChapterItem(title, ms) == [title |-> title, timeRangeStartMillis |-> ms]

HeatMarker(ms, dur, intensity) ==
    [timeRangeStartMillis |-> ms, markerDurationMillis |-> dur,
     heatMarkerIntensityScoreNormalized |-> intensity]

\* Chapter items of the parser runs: offsets of 0 s, 0.5 s, 60 s, 120 s and 24 h
ParseChapterItems ==
    {ChapterItem("Intro", 0), ChapterItem("Intro", 500), ChapterItem("Main", 60000),
     ChapterItem("Outro", 120000), ChapterItem("Late", 86400000)}

\* Heat markers of the parser runs: 0.5 s, 59.999 s, 90 s, 130 s, and one ending past 24 h
ParseHeatMarkers ==
    {HeatMarker(500, 10000, 50), HeatMarker(59999, 10000, 90), HeatMarker(90000, 10000, 90),
     HeatMarker(130000, 10000, 10), HeatMarker(86390000, 20000, 50)}

ParseDurations == {100, 150, 86400}

SecondsInputs ==
    {h * 3600 + m * 60 + s : h \in 0..MaxHours, m \in {0, 59}, s \in {0, 1, 59}}

MillisecondsInputs == {1000 * s + r : s \in SecondsInputs, r \in {0, 999}}

\* Floats with a fraction of .0 or .5, as twice their value
FloatInputs == {2 * s + r : s \in {0, 1, 2, 57, 58, 3599, 86399}, r \in {0, 1}}

-----------------------------------------------------------------------------
(* Time arithmetic, run on its own *)

TimeIdle ==
    /\ marker_data = <<>> /\ duration = 0 /\ pc = "start"
    /\ chapters = <<>> /\ heatmaps = <<>>
    /\ call = None /\ result = <<>>
    /\ clip_call = None /\ clips = <<>> /\ clip_error = FALSE

InitTime ==
    /\ TimeIdle
    /\ t_arg = None /\ t_time = None /\ t_seconds = None

UnchangedButTime ==
    UNCHANGED <<marker_data, duration, pc, chapters, heatmaps, call, result,
                clip_call, clips, clip_error>>

CallSecondsToTime ==
    \E seconds \in {IntArg(s) : s \in SecondsInputs} \cup {FloatArg(t) : t \in FloatInputs} :
        /\ t_arg' = Some([fn |-> "seconds_to_time", arg |-> seconds])
        /\ t_time' = Some(seconds_to_time(seconds))
        /\ t_seconds' = None
        /\ UnchangedButTime

CallMillisecondsToTime ==
    \E milliseconds \in MillisecondsInputs :
        /\ t_arg' = Some([fn |-> "milliseconds_to_time", arg |-> milliseconds])
        /\ t_time' = Some(milliseconds_to_time(milliseconds))
        /\ t_seconds' = None
        /\ UnchangedButTime

CallTimeToSeconds ==
    /\ t_time # None
    /\ ~IsError(Get(t_time))
    /\ t_seconds = None
    /\ t_seconds' = Some(time_to_seconds(Get(t_time)))
    /\ UNCHANGED <<t_arg, t_time>>
    /\ UnchangedButTime

NextTime == CallSecondsToTime \/ CallMillisecondsToTime \/ CallTimeToSeconds

SpecTime == InitTime /\ [][NextTime]_vars

\* C8: for every non-negative integer s, 24 hours and more included,
\* seconds_to_time(s) succeeds and time_to_seconds gives s back; for every
\* non-negative integer m, time_to_seconds(milliseconds_to_time(m)) is m // 1000.
C8_RoundTrip ==
    /\ (t_arg # None /\ Get(t_arg).fn = "seconds_to_time" /\ Get(t_arg).arg.kind = "int")
        => ~IsError(Get(t_time))
    /\ (t_arg # None /\ Get(t_arg).fn = "milliseconds_to_time")
        => ~IsError(Get(t_time))
    /\ (t_seconds # None /\ Get(t_arg).fn = "seconds_to_time"
            /\ Get(t_arg).arg.kind = "int")
        => Get(t_seconds) = Get(t_arg).arg.v
    /\ (t_seconds # None /\ Get(t_arg).fn = "milliseconds_to_time")
        => Get(t_seconds) = Get(t_arg).arg \div 1000

-----------------------------------------------------------------------------
(* The marker parser, run as get_video_heatmap runs it *)

ParseIdle ==
    /\ call = None /\ result = <<>>
    /\ clip_call = None /\ clips = <<>> /\ clip_error = FALSE
    /\ t_arg = None /\ t_time = None /\ t_seconds = None

InitParse ==
    /\ ParseIdle
    /\ \E chapter_data \in SeqsUpTo(ParseChapterItems, MaxChapters),
          heatmap_data \in SeqsUpTo(ParseHeatMarkers, MaxMarkers) :
            marker_data = MarkerData(chapter_data, heatmap_data)
    /\ duration \in ParseDurations
    /\ pc = "start"
    /\ chapters = <<>>
    /\ heatmaps = <<>>

UnchangedButParse ==
    UNCHANGED <<marker_data, duration, call, result,
                clip_call, clips, clip_error, t_arg, t_time, t_seconds>>

GetChapters ==
    /\ pc = "start"
    /\ LET got == get_chapters(marker_data, duration)
       IN  IF got.raised
           THEN pc' = "get_chapters raised" /\ UNCHANGED chapters
           ELSE pc' = "chapters" /\ chapters' = got.value
    /\ UNCHANGED heatmaps
    /\ UnchangedButParse

GetHeatmaps ==
    /\ pc = "chapters"
    /\ LET got == get_heatmaps(marker_data, chapters)
       IN  IF got.raised
           THEN pc' = "get_heatmaps raised" /\ UNCHANGED heatmaps
           ELSE pc' = "heatmaps" /\ heatmaps' = got.value
    /\ UNCHANGED chapters
    /\ UnchangedButParse

NextParse == GetChapters \/ GetHeatmaps

SpecParse == InitParse /\ [][NextParse]_vars

ChapterData == EntryValue(marker_data, "DESCRIPTION_CHAPTERS")
HeatmapData == EntryValue(marker_data, "HEATSEEKER")
ChaptersReturned == pc \in {"chapters", "heatmaps", "get_heatmaps raised"}
StartSeconds(i) == time_to_seconds(chapters[i].start_time)
EndSeconds(i) == time_to_seconds(chapters[i].end_time)
OffsetSeconds(i) == ChapterData[i].timeRangeStartMillis \div 1000

\* C1 as stated: whatever the chapter items and the duration, the list
\* get_chapters returns is a gapless ordered partition of [0, duration].
C1_PartitionOfAnyInput ==
    (ChaptersReturned /\ Len(ChapterData) >= 1) =>
        /\ StartSeconds(1) = 0
        /\ \A i \in 1..(Len(chapters) - 1) : chapters[i].end_time = chapters[i + 1].start_time
        /\ EndSeconds(Len(chapters)) = duration
        /\ \A i \in 1..Len(chapters) : StartSeconds(i) <= EndSeconds(i)

\* C1 (amended): with n >= 1 chapter items get_chapters raises exactly when an
\* offset or the duration reaches 24 hours; the list it returns otherwise has n
\* chapters, each ending where the next starts, the last ending at the duration,
\* the first starting at the first offset in whole seconds, and chapter i has
\* start_time <= end_time exactly when its offset in whole seconds does not
\* exceed the next one (the duration for the last chapter).
C1_ChainedToDuration ==
    /\ (pc # "start" /\ Len(ChapterData) >= 1) =>
        (pc = "get_chapters raised" <=>
            \/ \E i \in 1..Len(ChapterData) : ChapterData[i].timeRangeStartMillis >= 86400000
            \/ duration >= 86400)
    /\ (ChaptersReturned /\ Len(ChapterData) >= 1) =>
        /\ Len(chapters) = Len(ChapterData)
        /\ StartSeconds(1) = OffsetSeconds(1)
        /\ \A i \in 1..(Len(chapters) - 1) : chapters[i].end_time = chapters[i + 1].start_time
        /\ EndSeconds(Len(chapters)) = duration
        /\ \A i \in 1..Len(chapters) :
              StartSeconds(i) <= EndSeconds(i)
                  <=> OffsetSeconds(i) <= (IF i < Len(chapters) THEN OffsetSeconds(i + 1)
                                           ELSE duration)

\* C1's case: three chapters returned that do partition [0, duration]
C1_Witness ==
    /\ pc = "chapters"
    /\ Len(chapters) = 3
    /\ StartSeconds(1) = 0
    /\ EndSeconds(3) = duration
    /\ \A i \in 1..3 : StartSeconds(i) < EndSeconds(i)

\* C2: each heatmap get_heatmaps builds carries the last chapter in list order
\* whose start_time is at or before the heatmap's start in whole seconds, and
\* no chapter when there is none.
C2_LastQualifyingChapter ==
    pc = "heatmaps" =>
        /\ Len(heatmaps) = Len(HeatmapData)
        /\ \A i \in 1..Len(heatmaps) :
              LET at == HeatmapData[i].timeRangeStartMillis \div 1000
                  qualifying == {j \in 1..Len(chapters) : StartSeconds(j) <= at}
              IN  heatmaps[i].chapter =
                      IF qualifying = {} THEN None
                      ELSE Some(CHOOSE j \in qualifying : \A k \in qualifying : k <= j)

\* C2's case: chapters at 0 s, 60 s, 120 s and a heatmap at 90 s on the 60 s chapter
C2_Witness ==
    /\ pc = "heatmaps"
    /\ Len(chapters) = 3
    /\ StartSeconds(1) = 0 /\ StartSeconds(2) = 60 /\ StartSeconds(3) = 120
    /\ \E i \in 1..Len(heatmaps) :
          /\ time_to_seconds(heatmaps[i].start_time) = 90
          /\ heatmaps[i].chapter = Some(2)

-----------------------------------------------------------------------------
(* The ranking and merge engine, called on a VideoHeatmap that               *)
(* get_video_heatmap built                                                   *)

\* The chapter lists of the ranking runs: none; one; three one minute apart;
\* the same with the first starting at 12 s; the same with a repeated title
RankChapterLists ==
    {<<>>,
     <<ChapterItem("Intro", 0)>>,
     <<ChapterItem("Intro", 0), ChapterItem("Main", 60000), ChapterItem("Outro", 120000)>>,
     <<ChapterItem("Intro", 12000), ChapterItem("Main", 60000), ChapterItem("Outro", 120000)>>,
     <<ChapterItem("Intro", 0), ChapterItem("Main", 60000), ChapterItem("Intro", 120000)>>}

\* (10 s, 20 s) and (15 s, 30 s) in the first minute, one marker in each of
\* the next two minutes; two intensities are tied
RankHeatMarkers ==
    {HeatMarker(10000, 10000, 50), HeatMarker(15000, 15000, 90),
     HeatMarker(70000, 10000, 90), HeatMarker(130000, 5000, 95)}

Counts == 0..MaxCount

InitRank ==
    /\ clip_call = None /\ clips = <<>> /\ clip_error = FALSE
    /\ t_arg = None /\ t_time = None /\ t_seconds = None
    /\ \E chapter_data \in RankChapterLists,
          heatmap_data \in SeqsUpTo(RankHeatMarkers, MaxHeatmaps) :
            marker_data = MarkerData(chapter_data, heatmap_data)
    /\ duration = 300
    /\ pc = "heatmaps"
    /\ chapters = get_chapters(marker_data, duration).value
    /\ heatmaps = get_heatmaps(marker_data, chapters).value
    /\ call = None
    /\ result = <<>>

UnchangedButRank ==
    UNCHANGED <<marker_data, duration, pc, chapters,
                clip_call, clips, clip_error, t_arg, t_time, t_seconds>>

\* Successive calls are numbered modulo 2, so that every call is a step
NextSerial == IF call = None THEN 0 ELSE 1 - Get(call).serial

MostIntenseHeatmaps ==
    \E merge \in BOOLEAN, count \in Counts :
        LET r == most_intense_heatmaps(heatmaps, chapters, merge, count)
        IN  /\ pc = "heatmaps"
            /\ call' = Some([fn |-> "most_intense_heatmaps", merge |-> merge,
                             count |-> count, serial |-> NextSerial])
            /\ heatmaps' = r.heatmaps
            /\ result' = r.result
            /\ UnchangedButRank

MostIntenseChapters ==
    \E merge \in BOOLEAN, count \in Counts :
        LET r == most_intense_heatmaps(heatmaps, chapters, merge, count)
        IN  /\ pc = "heatmaps"
            /\ call' = Some([fn |-> "most_intense_chapters", merge |-> merge,
                             count |-> count, serial |-> NextSerial])
            /\ heatmaps' = r.heatmaps
            /\ result' = ChaptersOf(r.heatmaps, r.result)
            /\ UnchangedButRank

NextRank == MostIntenseHeatmaps \/ MostIntenseChapters

SpecRank == InitRank /\ [][NextRank]_vars

Intensity(hs, x) == hs[x].intensity_score_normalised
HasChapter(hs, x) == hs[x].chapter # None

\* The place of heatmap x in descending order of intensity, ties by list position
Rank(hs, x) ==
    1 + Cardinality({y \in 1..Len(hs) :
            \/ Intensity(hs, y) > Intensity(hs, x)
            \/ Intensity(hs, y) = Intensity(hs, x) /\ y < x})

\* A heatmap with a chapter and no better-placed heatmap of the same title
FirstOfTitle(hs, x) ==
    /\ HasChapter(hs, x)
    /\ \A y \in 1..Len(hs) :
          (HasChapter(hs, y) /\ TitleOf(hs, chapters, y) = TitleOf(hs, chapters, x))
              => Rank(hs, x) <= Rank(hs, y)

Firsts(hs) == {x \in 1..Len(hs) : FirstOfTitle(hs, x)}

ShortCircuits(hs, c) == ~c.merge \/ CountWithChapter(hs) < c.count
Called == call' # call /\ Get(call').fn = "most_intense_heatmaps"
Returned == call # None /\ Get(call).fn = "most_intense_heatmaps"

SameTitle(hs, x, y) ==
    HasChapter(hs, x) /\ HasChapter(hs, y)
        /\ TitleOf(hs, chapters, x) = TitleOf(hs, chapters, y)

\* The merged entries span their title's heatmaps as these were before the call
MergedSpans ==
    /\ \A i, j \in 1..Len(result') :
          SameTitle(heatmaps, result'[i], result'[j]) => i = j
    /\ \A i \in 1..Len(result') :
          LET e == result'[i]
              same == {y \in 1..Len(heatmaps) : SameTitle(heatmaps, e, y)}
          IN  HasChapter(heatmaps, e) =>
                /\ \A y \in same : /\ time_to_seconds(heatmaps'[e].start_time)
                                        <= time_to_seconds(heatmaps[y].start_time)
                                   /\ time_to_seconds(heatmaps'[e].end_time)
                                        >= time_to_seconds(heatmaps[y].end_time)
                /\ \E y \in same : heatmaps'[e].start_time = heatmaps[y].start_time
                /\ \E y \in same : heatmaps'[e].end_time = heatmaps[y].end_time

\* C3: when merge is false or fewer than count heatmaps have a chapter, the
\* call returns the first min(count, n) heatmaps in descending order of
\* intensity, ties in their original order, and changes no heatmap.
C3_TopCountUnmerged ==
    [][(Called /\ ShortCircuits(heatmaps, Get(call'))) =>
          /\ heatmaps' = heatmaps
          /\ Len(result') = Min(Get(call').count, Len(heatmaps))
          /\ \A i \in 1..Len(result') : Rank(heatmaps, result'[i]) = i]_vars

\* C3's case: a short-circuited call that cut a list with tied intensities
C3_Witness ==
    /\ Returned
    /\ ShortCircuits(heatmaps, Get(call))
    /\ Len(result) >= 2
    /\ Len(result) < Len(heatmaps)
    /\ \E i \in 1..(Len(result) - 1) :
          Intensity(heatmaps, result[i]) = Intensity(heatmaps, result[i + 1])

\* C4 as stated: after any call with merge = true and count >= 1 every title
\* in the result has one entry, spanning all the heatmaps of that title.
C4_MergedForEveryCount ==
    [][(Called /\ Get(call').merge /\ Get(call').count >= 1) => MergedSpans]_vars

\* C4 (amended): the same, for the calls with merge = true and count >= 1 in
\* which at least count heatmaps have a chapter.
C4_MergedOnMergePath ==
    [][(Called /\ Get(call').count >= 1 /\ ~ShortCircuits(heatmaps, Get(call')))
          => MergedSpans]_vars

\* C4's case: "Intro" heatmaps (10 s, 20 s) and (15 s, 30 s) merged into (10 s, 30 s)
C4_Witness ==
    /\ Returned
    /\ Get(call).count >= 1
    /\ ~ShortCircuits(heatmaps, Get(call))
    /\ \E i \in 1..Len(result), y \in 1..Len(heatmaps) :
          /\ y # result[i]
          /\ SameTitle(heatmaps, result[i], y)
          /\ TitleOf(heatmaps, chapters, y) = "Intro"
          /\ time_to_seconds(heatmaps[result[i]].start_time) = 10
          /\ time_to_seconds(heatmaps[result[i]].end_time) = 30
          /\ time_to_seconds(heatmaps[y].start_time) = 15
          /\ time_to_seconds(heatmaps[y].end_time) = 30

C10_OwnHeatmapsUntouched == [][heatmaps' = heatmaps]_vars

-----------------------------------------------------------------------------
(* The clip interval calculator, called on the chapters and heatmaps of a    *)
(* VideoHeatmap that get_video_heatmap built                                 *)

\* Chapters (5 s, 30 s), (30 s, 90 s), (90 s, 150 s), or (0 s, 31 s), (31 s, 91 s), (91 s, 150 s)
ClipChapterLists ==
    {<<ChapterItem("Intro", 5000), ChapterItem("Main", 30000), ChapterItem("Outro", 90000)>>,
     <<ChapterItem("Intro", 0), ChapterItem("Main", 31000), ChapterItem("Outro", 91000)>>}

\* Heatmaps (5 s, 15 s), (30 s, 90 s), (140 s, 160 s)
ClipHeatMarkers ==
    {HeatMarker(5000, 10000, 50), HeatMarker(30000, 60000, 90), HeatMarker(140000, 20000, 90)}

\* ClipAlign, and None as main.py passes it when no alignment is given
Aligns == {"left", "center", "right", "None"}

Lengths == {None, Some(0), Some(5), Some(10), Some(20)}

InitClip ==
    /\ call = None /\ result = <<>>
    /\ t_arg = None /\ t_time = None /\ t_seconds = None
    /\ \E chapter_data \in ClipChapterLists,
          heatmap_data \in SeqsUpTo(ClipHeatMarkers, MaxBases) :
            marker_data = MarkerData(chapter_data, heatmap_data)
    /\ duration = 150
    /\ pc = "heatmaps"
    /\ chapters = get_chapters(marker_data, duration).value
    /\ heatmaps = get_heatmaps(marker_data, chapters).value
    /\ clip_call = None
    /\ clips = <<>>
    /\ clip_error = FALSE

UnchangedButClip ==
    UNCHANGED <<marker_data, duration, pc, chapters, heatmaps, call, result,
                t_arg, t_time, t_seconds>>

GenerateChapterClips ==
    \E refs \in SeqsUpTo(1..Len(chapters), MaxBases), align \in Aligns, length \in Lengths :
        LET r == generate_chapter_clips(chapters, refs, align, length, duration)
        IN  /\ pc = "heatmaps"
            /\ clip_call = None
            /\ clip_call' = Some([fn |-> "generate_chapter_clips", bases |-> refs,
                                  align |-> align, length |-> length])
            /\ clips' = r.clips
            /\ clip_error' = r.raised
            /\ UnchangedButClip

GenerateHeatmapClips ==
    \E refs \in SeqsUpTo(1..Len(heatmaps), MaxBases), align \in Aligns, length \in Lengths :
        LET r == generate_heatmap_clips(heatmaps, refs, align, length, duration)
        IN  /\ pc = "heatmaps"
            /\ clip_call = None
            /\ clip_call' = Some([fn |-> "generate_heatmap_clips", bases |-> refs,
                                  align |-> align, length |-> length])
            /\ clips' = r.clips
            /\ clip_error' = r.raised
            /\ UnchangedButClip

\* main.py makes one of the two calls, once, in a run
NextClip == GenerateChapterClips \/ GenerateHeatmapClips

SpecClip == InitClip /\ [][NextClip]_vars

\* The chapter or heatmap a generate_clip call was made for
BaseOf(ref) ==
    IF Get(clip_call).fn = "generate_chapter_clips" THEN chapters[ref] ELSE heatmaps[ref]

ClipLength == Get(Get(clip_call).length)
WithLength(align) ==
    /\ clip_call # None
    /\ Get(clip_call).align = align
    /\ Truthy(Get(clip_call).length)

\* C5: with a length L and right alignment the interval computed for a base
\* (s, e) is its last L seconds, (e - L, e).
C5_RightIsLastSeconds ==
    WithLength("right") =>
        \A i \in 1..Len(clips) :
            /\ time_to_seconds(clips[i].start_time)
                   = time_to_seconds(BaseOf(clips[i].base).end_time) - ClipLength
            /\ clips[i].end_time = BaseOf(clips[i].base).end_time

\* C6: a right-aligned clip whose start, base.start_time - length, would be
\* negative is computed without error and rendered from second 0.
C6_NegativeStartClamped ==
    WithLength("right") =>
        \A k \in 1..Len(Get(clip_call).bases) :
            time_to_seconds(BaseOf(Get(clip_call).bases[k]).start_time) - ClipLength < 0
                => /\ ~clip_error
                   /\ Len(clips) = Len(Get(clip_call).bases)
                   /\ clips[k].t_start = 0

\* C7: with a length L, odd or even, and center alignment the computed
\* interval has end - start = L and lies symmetric about the middle of the
\* base, up to the rounding of one second.
C7_CenterHasLength ==
    WithLength("center") =>
        \A i \in 1..Len(clips) :
            LET start == time_to_seconds(clips[i].start_time)
                end == time_to_seconds(clips[i].end_time)
                base == BaseOf(clips[i].base)
                twice_mid == time_to_seconds(base.start_time) + time_to_seconds(base.end_time)
            IN  /\ end - start = ClipLength
                /\ start + end - twice_mid \in -1..1

====
